---- MODULE Spec2Model ----
(***************************************************************************)
(* Model of build/generate_code.py: the sequential, context-chained        *)
(* generation pipeline (main), the completion call (call_llm_api), the     *)
(* four stage generators, extract_code, save_file and                      *)
(* generate_config_files.                                                  *)
(*                                                                         *)
(* Texts are sequences of one-character strings; Python's 0-based string   *)
(* operations (find, rfind, slicing, strip, "in") are modelled by what     *)
(* they compute.                                                           *)
(***************************************************************************)
EXTENDS Integers, Sequences, FiniteSets, TLC

VARIABLES
    \* ---- the pipeline (main) ----
    pc,               \* position in main: <<step, stage or config file number>>
    args,             \* parsed command line: model, api_key, endpoint
    env_api_key,      \* os.environ.get('LLM_API_KEY')
    disk,             \* the file system: path -> [present, content]
    requests,         \* completion requests posted so far, in order
    responses,        \* raw completion text received for each posted request
    writes,           \* files written by this run, in order
    prompt,           \* the prompt read by the current step
    html_content,     \* main's locals
    js_content,
    css_content,
    test_content,
    response_content, \* generate_config_files' local
    exit_code,        \* <<status>> once the process has exited, <<>> while it runs
    output,           \* what the run has printed, in order
    \* ---- extract_code applied to one text ----
    llm_response,     \* the argument
    extracted,        \* extract_code(llm_response)
    extracted2,       \* extract_code(extracted)
    xpc,              \* "in", "once", "twice"; "off" in the pipeline
    \* ---- the compressor command line, test3-claude.py ----
    argv,             \* sys.argv; argv[1] here is sys.argv[0], the script
    openai_api_key,   \* OPENAI_API_KEY after load_dotenv()
    files,            \* names of the files that exist
    cli_pc,           \* "main", "test_compress", "test_decompress", "exited"
    compressed,       \* test_compression_system's local
    stdout,           \* lines printed, in order
    stderr,           \* the traceback of an uncaught exception
    status            \* <<exit status>> once the process has ended

pvars == <<pc, args, env_api_key, disk, requests, responses, writes, prompt,
           html_content, js_content, css_content, test_content,
           response_content, exit_code, output>>
xvars == <<llm_response, extracted, extracted2, xpc>>
cvars == <<argv, openai_api_key, files, cli_pc, compressed, stdout, stderr,
           status>>
vars == <<pvars, xvars, cvars>>

--------------------------------------------------------------------------
(* Characters and Python string primitives *)

\* the backquote character, U+0060 (written by name: the lexer rejects it in a string)
BT == "BQ"
NL == "\n"
SP == " "
TAB == "\t"

\* str.isspace() on the characters the model uses
IsSpace(c) == c \in {SP, NL, TAB}

FENCE == <<BT, BT, BT>>

\* fence + language tag + newline + code + newline + fence
Wrap(tag, code) == FENCE \o tag \o <<NL>> \o code \o <<NL>> \o FENCE

Min(a, b) == IF a < b THEN a ELSE b
Max(a, b) == IF a > b THEN a ELSE b

\* s[a:b] for 0 <= a, 0 <= b (Python clamps both to len(s))
Slice(s, a, b) ==
    LET lo == Min(a, Len(s))
        hi == Min(b, Len(s))
    IN  IF hi <= lo THEN <<>> ELSE SubSeq(s, lo + 1, hi)

\* sub occurs in s at 0-based index i
OccursAt(s, sub, i) ==
    /\ i >= 0
    /\ i + Len(sub) <= Len(s)
    /\ \A j \in 1..Len(sub) : s[i + j] = sub[j]

Occurrences(s, sub) == {i \in 0..Len(s) : OccursAt(s, sub, i)}

\* sub in s
Contains(s, sub) == Occurrences(s, sub) # {}

\* s.find(sub, start): lowest index >= start, -1 when there is none
Find(s, sub, start) ==
    LET occ == {i \in Occurrences(s, sub) : i >= start}
    IN  IF occ = {} THEN -1 ELSE CHOOSE i \in occ : \A j \in occ : i <= j

\* s.rfind(sub): highest index, -1 when there is none
RFind(s, sub) ==
    LET occ == Occurrences(s, sub)
    IN  IF occ = {} THEN -1 ELSE CHOOSE i \in occ : \A j \in occ : i >= j

\* s.lstrip() / s.rstrip() / s.strip()
lstrip(s) ==
    LET keep == {i \in 1..Len(s) : ~IsSpace(s[i])}
    IN  IF keep = {} THEN <<>>
        ELSE SubSeq(s, CHOOSE i \in keep : \A j \in keep : i <= j, Len(s))

rstrip(s) ==
    LET keep == {i \in 1..Len(s) : ~IsSpace(s[i])}
    IN  IF keep = {} THEN <<>>
        ELSE SubSeq(s, 1, CHOOSE i \in keep : \A j \in keep : i >= j)

strip(s) == rstrip(lstrip(s))

--------------------------------------------------------------------------
(* extract_code *)

\* mutant of extract_fenced: the slice is returned without .strip()
extract_fenced_unstripped(s) ==
    LET start0 == Find(s, FENCE, 0) + 3
        skip   == /\ strip(Slice(s, start0, start0 + 10)) # <<>>
                  /\ Contains(Slice(s, start0, start0 + 20), <<NL>>)
        start  == IF skip THEN Find(s, <<NL>>, start0) + 1 ELSE start0
        end    == RFind(s, FENCE)
    IN  Slice(s, start, end)

\* mutant of extract_fenced: with no closing fence after the opening one the
\* block runs to the end of the response
extract_fenced_to_end(s) ==
    LET start0 == Find(s, FENCE, 0) + 3
        skip   == /\ strip(Slice(s, start0, start0 + 10)) # <<>>
                  /\ Contains(Slice(s, start0, start0 + 20), <<NL>>)
        start  == IF skip THEN Find(s, <<NL>>, start0) + 1 ELSE start0
        last   == RFind(s, FENCE)
        end    == IF last < start THEN Len(s) ELSE last
    IN  strip(Slice(s, start, end))

\* the branch taken when the response holds a fence
extract_fenced(s) ==
    LET start0 == Find(s, FENCE, 0) + 3
        skip   == /\ strip(Slice(s, start0, start0 + 10)) # <<>>
                  /\ Contains(Slice(s, start0, start0 + 20), <<NL>>)
        start  == IF skip THEN Find(s, <<NL>>, start0) + 1 ELSE start0
        end    == RFind(s, FENCE)
    IN  strip(Slice(s, start, end))

\* mutant of extract_code: a response without a fence is returned as it is
extract_code_untrimmed(s) ==
    IF Contains(s, FENCE) THEN extract_fenced(s) ELSE s

extract_code(s) ==
    IF Contains(s, FENCE) THEN extract_fenced(s) ELSE strip(s)

--------------------------------------------------------------------------
(* Configuration, paths and the texts the environment supplies *)

\* Python's None for the optional arguments; the empty string is falsy too
None == "None"
Falsy(v) == v = None \/ v = ""

DEFAULT_MODEL == "env:LLM_MODEL"
DEFAULT_API_ENDPOINT == "env:LLM_API_ENDPOINT"
DEFAULT_SYSTEM_MESSAGE == "You are a code generator for a calculator application."

\* the values --model, --api-key and --endpoint can take
ArgValues(name) == {None, "cli:" \o name}
Args == [model : ArgValues("model"), api_key : ArgValues("api_key"),
         endpoint : ArgValues("endpoint")]

\* OUTPUT_DIR / ... of main, and the names generate_config_files opens
html_path == "generated/index.html"
js_path == "generated/app.js"
css_path == "generated/style.css"
\* mutant of test_path: the path of the step above, copied and not edited
test_path_copied == "generated/app.js"
test_path == "generated/tests/calculator.test.js"
config_files ==
    <<[name |-> "babel.config.js",
       prompt |-> "Generate a babel configuration file for a JavaScript project using Jest for testing."],
      [name |-> "jest.config.js",
       prompt |-> "Generate a Jest configuration file for testing a vanilla JavaScript project."],
      [name |-> "package.json",
       prompt |-> "Generate a package.json file with all necessary dependencies for a JavaScript project using Jest for testing."]>>

PrimaryPaths == <<html_path, js_path, css_path, test_path>>
ConfigPaths == [i \in 1..Len(config_files) |-> config_files[i].name]
OutputPaths == PrimaryPaths \o ConfigPaths
Paths == {OutputPaths[i] : i \in 1..Len(OutputPaths)}

\* the prompt files under PROMPT_DIR, as stored (untrimmed)
PromptFile(path) ==
    CASE path = "prompts/calculator-ui.prompt" -> <<NL, "u", "i", NL>>
      [] path = "prompts/business-logic.prompt" -> <<"l", "o", SP>>
      [] path = "prompts/styling.prompt" -> <<SP, "s", "t">>
      [] path = "prompts/tests.prompt" -> <<"t", SP, "e", NL>>

\* read_prompt_file on a file that exists
read_prompt_file(prompt_path) == strip(PromptFile(prompt_path))

\* what the completion endpoint may answer: code with blank space around
\* it, code in a fenced block with a language tag, an unclosed fence
CompletionTexts ==
    {<<SP, "a", NL>>, Wrap(<<"j", "s">>, <<"b", NL, "c">>), FENCE \o <<"e">>}

\* what it may answer to a configuration-file request
ConfigTexts == {<<"{", "}">>, Wrap(<<"j", "s">>, <<"{", "}">>)}

\* what a file left by an earlier run holds
Stale == <<"o", "l", "d">>
Absent == [present |-> FALSE, content |-> <<>>]
File(content) == [present |-> TRUE, content |-> content]

\* a local of main that is not bound yet
Unbound == <<"unbound">>

--------------------------------------------------------------------------
(* The stage generators: the arguments each passes to call_llm_api *)

\* a user message is the sequence of the pieces its f-string joins: fixed
\* text, or the text substituted for one placeholder
Lit(s) == [slot |-> "text", body |-> <<s>>]
Sub(slot, text) == [slot |-> slot, body |-> text]

Call(full_prompt, system_message, model, api_key, endpoint) ==
    [prompt |-> full_prompt, system_message |-> system_message,
     model |-> model, api_key |-> api_key, endpoint |-> endpoint]

HTML_SYSTEM_PROMPT == "Generate only the HTML code for a calculator. Respond with ONLY the complete HTML file, no explanations or markdown."
JS_SYSTEM_PROMPT == "Generate only the JavaScript code for a calculator. Respond with ONLY the complete JavaScript file, no explanations or markdown."
CSS_SYSTEM_PROMPT == "Generate only the CSS code for a calculator. Respond with ONLY the complete CSS file, no explanations or markdown."
TESTS_SYSTEM_PROMPT == "Generate only JavaScript test code for a calculator. Respond with ONLY the complete test file, no explanations or markdown."
CONFIG_SYSTEM_MESSAGE == "You are a helpful assistant that generates configuration files."

generate_html(p) ==
    Call(<<Lit(HTML_SYSTEM_PROMPT), Lit("\n\n"), Sub("prompt", p)>>,
         DEFAULT_SYSTEM_MESSAGE, None, None, None)

generate_javascript(p, html_context) ==
    Call(<<Lit("I'll provide you with the HTML structure ... Here's the HTML structure:"),
           Lit("fence html"), Sub("html_context", html_context), Lit("fence"),
           Lit("Now, here are the requirements for the JavaScript business logic:"),
           Lit("\n"), Sub("prompt", p)>>,
         JS_SYSTEM_PROMPT, None, None, None)

\* mutant of generate_css: the two contexts are substituted the wrong way round
generate_css_swapped(p, html_context, js_context) ==
    Call(<<Lit("I'll provide you with the HTML and JavaScript code ... Here's the HTML structure:"),
           Lit("fence html"), Sub("html_context", js_context), Lit("fence"),
           Lit("Here's the JavaScript code:"),
           Lit("fence javascript"), Sub("js_context", html_context), Lit("fence"),
           Lit("Now, here are the requirements for the CSS styling:"),
           Lit("\n"), Sub("prompt", p)>>,
         CSS_SYSTEM_PROMPT, None, None, None)

generate_css(p, html_context, js_context) ==
    Call(<<Lit("I'll provide you with the HTML and JavaScript code ... Here's the HTML structure:"),
           Lit("fence html"), Sub("html_context", html_context), Lit("fence"),
           Lit("Here's the JavaScript code:"),
           Lit("fence javascript"), Sub("js_context", js_context), Lit("fence"),
           Lit("Now, here are the requirements for the CSS styling:"),
           Lit("\n"), Sub("prompt", p)>>,
         CSS_SYSTEM_PROMPT, None, None, None)

generate_tests(p, html_context, js_context, css_context) ==
    Call(<<Lit("I'll provide you with the complete implementation ... Here's the HTML structure:"),
           Lit("fence html"), Sub("html_context", html_context), Lit("fence"),
           Lit("Here's the JavaScript code:"),
           Lit("fence javascript"), Sub("js_context", js_context), Lit("fence"),
           Lit("Here's the CSS code:"),
           Lit("fence css"), Sub("css_context", css_context), Lit("fence"),
           Lit("Now, here are the requirements for the tests:"),
           Lit("\n"), Sub("prompt", p)>>,
         TESTS_SYSTEM_PROMPT, None, None, None)

\* the call generate_config_files makes for config_files[i]
config_call(i) ==
    Call(<<Lit(config_files[i].prompt)>>, CONFIG_SYSTEM_MESSAGE,
         DEFAULT_MODEL, env_api_key, None)

--------------------------------------------------------------------------
(* call_llm_api *)

\* the request posted: arguments resolved against the defaults
Request(call) ==
    [model |-> IF Falsy(call.model) THEN DEFAULT_MODEL ELSE call.model,
     endpoint |-> IF Falsy(call.endpoint) THEN DEFAULT_API_ENDPOINT ELSE call.endpoint,
     api_key |-> IF Falsy(call.api_key) THEN env_api_key ELSE call.api_key,
     system |-> call.system_message,
     user |-> call.prompt]

\* raise ValueError("API key not provided...") before anything is posted
MissingKey(call) == Falsy(call.api_key) /\ Falsy(env_api_key)

\* what requests.post and raise_for_status raise: a transport error, a
\* non-2xx status
ApiErrors == {"ConnectionError", "HTTPError"}

Answer(text) == [ok |-> TRUE, text |-> text]
Failure(e) == [ok |-> FALSE, text |-> <<e>>]

\* mutant of Raise: the handler prints a fixed message that leaves the
\* exception out
Raise_no_cause(printed, e, k) ==
    /\ output' = output \o printed \o <<<<"Error during code generation:", "">>>>
    /\ exit_code' = <<1>>
    /\ pc' = <<"failed", k>>

\* mutant of Raise: the handler prints the error and returns, so the process
\* ends with status 0
Raise_exit_zero(printed, e, k) ==
    /\ output' = output \o printed \o <<<<"Error during code generation:", e>>>>
    /\ exit_code' = <<0>>
    /\ pc' = <<"failed", k>>

\* main's except clause: print the error, sys.exit(1); printed holds what
\* the failing step printed before it raised
Raise(printed, e, k) ==
    /\ output' = output \o printed \o <<<<"Error during code generation:", e>>>>
    /\ exit_code' = <<1>>
    /\ pc' = <<"failed", k>>

\* mutant of call_raises: a failed post is tried again by the caller
call_raises_retried(call, k) ==
    /\ ~MissingKey(call)
    /\ \E e \in ApiErrors :
         /\ requests' = Append(requests, Request(call))
         /\ responses' = Append(responses, Failure(e))
    /\ output' = Append(output, <<"Error calling LLM API:", "retrying">>)
    /\ UNCHANGED <<exit_code, pc>>

\* mutant of call_raises: the exception is caught and logged where it is
\* raised, and the caller carries on with its next step
call_raises_swallowed(call, k) ==
    /\ \/ MissingKey(call) /\ UNCHANGED <<requests, responses>>
       \/ /\ ~MissingKey(call)
          /\ \E e \in ApiErrors :
               /\ requests' = Append(requests, Request(call))
               /\ responses' = Append(responses, Failure(e))
    /\ output' = Append(output, <<"Error calling LLM API:", "swallowed">>)
    /\ UNCHANGED exit_code
    /\ pc' = IF k < 4 THEN <<"read", k + 1>>
             ELSE IF k < 7 THEN <<"config_call", k - 3>>
             ELSE <<"summary", 0>>

\* call_llm_api raising; k numbers the caller (1..4 stages, 5..7 config files)
call_raises(call, k) ==
    \/ /\ MissingKey(call)
       /\ UNCHANGED <<requests, responses>>
       /\ Raise(<<>>, "ValueError: API key not provided", k)
    \/ /\ ~MissingKey(call)
       /\ \E e \in ApiErrors :
            /\ requests' = Append(requests, Request(call))
            /\ responses' = Append(responses, Failure(e))
            /\ Raise(<<<<"Calling LLM API with model:", Request(call).model>>,
                       <<"Error calling LLM API:", e>>>>, e, k)

\* call_llm_api returning text
call_returns(call, text) ==
    /\ ~MissingKey(call)
    /\ requests' = Append(requests, Request(call))
    /\ responses' = Append(responses, Answer(text))
    /\ output' = output \o <<<<"Calling LLM API with model:", Request(call).model>>,
                             <<"API call completed">>>>
    /\ UNCHANGED exit_code

--------------------------------------------------------------------------
(* save_file and the writes of generate_config_files *)

\* os.makedirs + open(output_path, 'w') + write
save_file(content, output_path) ==
    /\ disk' = [disk EXCEPT ![output_path] = File(content)]
    /\ writes' = Append(writes, [path |-> output_path, content |-> content])

--------------------------------------------------------------------------
(* main *)

StageNames == <<"HTML", "JavaScript", "CSS", "Test">>
StepHeader(k) ==
    CASE k = 1 -> "[STEP 1/4] Generating HTML from UI prompt"
      [] k = 2 -> "[STEP 2/4] Generating JavaScript with HTML context"
      [] k = 3 -> "[STEP 3/4] Generating CSS with HTML and JavaScript context"
      [] k = 4 -> "[STEP 4/4] Generating tests with full application context"
PromptPaths ==
    <<"prompts/calculator-ui.prompt", "prompts/business-logic.prompt",
      "prompts/styling.prompt", "prompts/tests.prompt">>

\* mutant of StageCall: the CSS step runs before the JavaScript step
StageCall_css_first(k) ==
    CASE k = 1 -> generate_html(prompt)
      [] k = 2 -> generate_css(prompt, html_content, <<>>)
      [] k = 3 -> generate_javascript(prompt, html_content)
      [] k = 4 -> generate_tests(prompt, html_content, js_content, css_content)

\* the generator main calls at step k, on main's locals
StageCall(k) ==
    CASE k = 1 -> generate_html(prompt)
      [] k = 2 -> generate_javascript(prompt, html_content)
      [] k = 3 -> generate_css(prompt, html_content, js_content)
      [] k = 4 -> generate_tests(prompt, html_content, js_content, css_content)

\* the local step k assigns
Local(k) ==
    CASE k = 1 -> html_content
      [] k = 2 -> js_content
      [] k = 3 -> css_content
      [] k = 4 -> test_content

Assign(k, text) ==
    /\ html_content' = IF k = 1 THEN text ELSE html_content
    /\ js_content' = IF k = 2 THEN text ELSE js_content
    /\ css_content' = IF k = 3 THEN text ELSE css_content
    /\ test_content' = IF k = 4 THEN text ELSE test_content

locals == <<html_content, js_content, css_content, test_content>>

\* the compressor command line is not part of this program
CliOff ==
    /\ argv = <<>>
    /\ openai_api_key = ""
    /\ files = {}
    /\ cli_pc = "off"
    /\ compressed = <<>>
    /\ stdout = <<>>
    /\ stderr = <<>>
    /\ status = <<>>

Init ==
    /\ pc = <<"read", 1>>
    /\ args \in Args
    /\ env_api_key \in {None, "env:LLM_API_KEY"}
    /\ disk \in {[p \in Paths |-> Absent], [p \in Paths |-> File(Stale)]}
    /\ requests = <<>>
    /\ responses = <<>>
    /\ writes = <<>>
    /\ prompt = Unbound
    /\ html_content = Unbound
    /\ js_content = Unbound
    /\ css_content = Unbound
    /\ test_content = Unbound
    /\ response_content = Unbound
    /\ exit_code = <<>>
    /\ output = <<<<"LLM-BUILT CALCULATOR - SEQUENTIAL CODE GENERATION">>>>
    /\ llm_response = <<>>
    /\ extracted = <<>>
    /\ extracted2 = <<>>
    /\ xpc = "off"
    /\ CliOff

\* mutant of ReadPrompt: a missing prompt file is reported and the step
\* carries on with an empty prompt
ReadPrompt_fallback(k) ==
    /\ pc = <<"read", k>>
    /\ \/ prompt' = read_prompt_file(PromptPaths[k])
          /\ output' = output \o <<<<StepHeader(k)>>, <<"Read prompt from:", PromptPaths[k]>>>>
       \/ prompt' = <<>>
          /\ output' = output \o <<<<StepHeader(k)>>,
                  <<"Error during code generation:", "FileNotFoundError: " \o PromptPaths[k]>>>>
    /\ pc' = <<"generate", k>>
    /\ UNCHANGED <<args, env_api_key, disk, requests, responses, writes, locals,
                   response_content, exit_code, xvars, cvars>>

\* print the step header; prompt = read_prompt_file(PROMPT_DIR / ...)
ReadPrompt(k) ==
    /\ pc = <<"read", k>>
    /\ \/ /\ prompt' = read_prompt_file(PromptPaths[k])
          /\ output' = output \o <<<<StepHeader(k)>>, <<"Read prompt from:", PromptPaths[k]>>>>
          /\ pc' = <<"generate", k>>
          /\ UNCHANGED exit_code
       \/ /\ Raise(<<<<StepHeader(k)>>>>, "FileNotFoundError: " \o PromptPaths[k], k)
          /\ UNCHANGED prompt
    /\ UNCHANGED <<args, env_api_key, disk, requests, responses, writes, locals,
                   response_content, xvars, cvars>>

\* x_content = generate_x(prompt, earlier contents)
Generate(k) ==
    /\ pc = <<"generate", k>>
    /\ \/ \E text \in CompletionTexts :
            /\ call_returns(StageCall(k), text)
            /\ Assign(k, text)
            /\ pc' = <<"save", k>>
       \/ /\ call_raises(StageCall(k), k)
          /\ UNCHANGED locals
    /\ UNCHANGED <<args, env_api_key, disk, writes, prompt, response_content, xvars, cvars>>

\* mutant of ExtractAndSave: the response is saved before it is extracted
SaveThenExtract(k) ==
    /\ pc = <<"save", k>>
    /\ Assign(k, extract_code(Local(k)))
    /\ \/ /\ save_file(Local(k), PrimaryPaths[k])
          /\ output' = output \o <<<<"Saved:", PrimaryPaths[k]>>,
                                   <<StageNames[k] \o " generation complete">>>>
          /\ pc' = IF k < 4 THEN <<"read", k + 1>> ELSE <<"config_call", 1>>
          /\ UNCHANGED exit_code
       \/ /\ Raise(<<>>, "OSError: " \o PrimaryPaths[k], k)
          /\ UNCHANGED <<disk, writes>>
    /\ UNCHANGED <<args, env_api_key, requests, responses, prompt,
                   response_content, xvars, cvars>>

\* x_content = extract_code(x_content); save_file(x_content, x_path)
ExtractAndSave(k) ==
    /\ pc = <<"save", k>>
    /\ Assign(k, extract_code(Local(k)))
    /\ \/ /\ save_file(extract_code(Local(k)), PrimaryPaths[k])
          /\ output' = output \o <<<<"Saved:", PrimaryPaths[k]>>,
                                   <<StageNames[k] \o " generation complete">>>>
          /\ pc' = IF k < 4 THEN <<"read", k + 1>> ELSE <<"config_call", 1>>
          /\ UNCHANGED exit_code
       \/ /\ Raise(<<>>, "OSError: " \o PrimaryPaths[k], k)
          /\ UNCHANGED <<disk, writes>>
    /\ UNCHANGED <<args, env_api_key, requests, responses, prompt,
                   response_content, xvars, cvars>>

\* generate_config_files, loop body for config_files[i]: the completion call
ConfigCall(i) ==
    /\ pc = <<"config_call", i>>
    /\ \/ \E text \in ConfigTexts :
            /\ call_returns(config_call(i), text)
            /\ response_content' = text
            /\ pc' = <<"config_write", i>>
       \/ /\ call_raises(config_call(i), 4 + i)
          /\ UNCHANGED response_content
    /\ UNCHANGED <<args, env_api_key, disk, writes, prompt, locals, xvars, cvars>>

\* mutant of ConfigWrite: the response goes through extract_code first
ConfigWrite_extracted(i) ==
    /\ pc = <<"config_write", i>>
    /\ \/ /\ save_file(extract_code(response_content), config_files[i].name)
          /\ pc' = IF i < Len(config_files) THEN <<"config_call", i + 1>>
                   ELSE <<"summary", 0>>
          /\ UNCHANGED <<exit_code, output>>
       \/ /\ Raise(<<>>, "OSError: " \o config_files[i].name, 4 + i)
          /\ UNCHANGED <<disk, writes>>
    /\ UNCHANGED <<args, env_api_key, requests, responses, prompt, locals,
                   response_content, xvars, cvars>>

\* generate_config_files, loop body: open(config["name"], "w"), write
ConfigWrite(i) ==
    /\ pc = <<"config_write", i>>
    /\ \/ /\ save_file(response_content, config_files[i].name)
          /\ pc' = IF i < Len(config_files) THEN <<"config_call", i + 1>>
                   ELSE <<"summary", 0>>
          /\ UNCHANGED <<exit_code, output>>
       \/ /\ Raise(<<>>, "OSError: " \o config_files[i].name, 4 + i)
          /\ UNCHANGED <<disk, writes>>
    /\ UNCHANGED <<args, env_api_key, requests, responses, prompt, locals,
                   response_content, xvars, cvars>>

\* the closing prints of main; the process then ends with status 0
Summary ==
    /\ pc = <<"summary", 0>>
    /\ output' = output \o <<<<"CODE GENERATION COMPLETED SUCCESSFULLY">>,
                             <<"Generated files:", html_path, js_path, css_path, test_path>>>>
    /\ exit_code' = <<0>>
    /\ pc' = <<"done", 0>>
    /\ UNCHANGED <<args, env_api_key, disk, requests, responses, writes, prompt,
                   locals, response_content, xvars, cvars>>

Next ==
    \/ \E k \in 1..4 : ReadPrompt(k)
    \/ \E k \in 1..4 : Generate(k)
    \/ \E k \in 1..4 : ExtractAndSave(k)
    \/ \E i \in 1..Len(config_files) : ConfigCall(i)
    \/ \E i \in 1..Len(config_files) : ConfigWrite(i)
    \/ Summary

Spec == Init /\ [][Next]_vars

--------------------------------------------------------------------------
(* extract_code on its own: the texts it is applied to *)

\* most pieces a generated text is put together from
MaxTokens == 5

Rep(c, n) == [i \in 1..n |-> c]

Tokens == {FENCE, <<BT>>, <<NL>>, <<SP>>, <<"a">>}

RECURSIVE TextsUpTo(_)
TextsUpTo(n) ==
    IF n = 0 THEN {<<>>}
    ELSE LET prev == TextsUpTo(n - 1)
         IN  prev \cup {t \o k : t \in prev, k \in Tokens}

\* language tags: texts without a newline
Tags ==
    {<<>>, <<SP>>, <<TAB>>, <<"j", "s">>, <<"c", "s", "s">>,
     <<"j", "a", "v", "a", "s", "c", "r", "i", "p", "t">>,
     <<"j", "s", SP, "a">>,
     Rep("a", 9), Rep("a", 19), Rep("a", 20), Rep("a", 21),
     Rep(SP, 9) \o <<"j", "s">>, Rep(SP, 10) \o <<"j", "s">>}

\* code bodies: texts without a fence
Codes ==
    {<<>>, <<"a">>, <<"a", NL, "b">>, <<SP, "a", SP>>, <<NL, "a", NL, NL>>,
     <<"a", BT, "b">>, <<BT, BT>>, <<TAB, "a", SP, "b", TAB>>,
     Rep(SP, 12) \o <<"a">>, Rep("a", 22), <<SP, SP>>}

Wrapped == {Wrap(tag, code) : tag \in Tags, code \in Codes}

Inputs == TextsUpTo(MaxTokens) \cup Wrapped

\* the pipeline's variables while extract_code is studied alone
PipelineOff ==
    /\ pc = <<"off", 0>>
    /\ args = <<>>
    /\ env_api_key = ""
    /\ disk = <<>>
    /\ requests = <<>>
    /\ responses = <<>>
    /\ writes = <<>>
    /\ prompt = <<>>
    /\ html_content = <<>>
    /\ js_content = <<>>
    /\ css_content = <<>>
    /\ test_content = <<>>
    /\ response_content = <<>>
    /\ exit_code = <<>>
    /\ output = <<>>

InitExtract ==
    /\ PipelineOff
    /\ CliOff
    /\ llm_response \in Inputs
    /\ extracted = <<>>
    /\ extracted2 = <<>>
    /\ xpc = "in"

\* extracted = extract_code(llm_response)
Extract ==
    /\ xpc = "in"
    /\ extracted' = extract_code(llm_response)
    /\ xpc' = "once"
    /\ UNCHANGED <<pvars, cvars, llm_response, extracted2>>

\* extract_code applied to its own result
ExtractAgain ==
    /\ xpc = "once"
    /\ extracted2' = extract_code(extracted)
    /\ xpc' = "twice"
    /\ UNCHANGED <<pvars, cvars, llm_response, extracted>>

NextExtract == Extract \/ ExtractAgain

SpecExtract == InitExtract /\ [][NextExtract]_vars

--------------------------------------------------------------------------
(* test3-claude.py: the compressor command line *)

\* arguments after the script name
MaxArgs == 2

Words == {"test", "compress", "decompress", "bogus", "example.py"}

Argvs ==
    {<<"test3-claude.py">> \o a : a \in UNION {[1..n -> Words] : n \in 0..MaxArgs}}

\* what the chat completion endpoint can answer
CompressedTexts == {"IMP: typing", "FN: add_task"}
DecompressedTexts == {"import heapq"}

\* print_help: the lines it prints
print_help ==
    <<"Python Code Compressor/Decompressor",
      "Usage:",
      "  python test3-claude.py test                        # Run test case",
      "  python test3-claude.py compress <file>             # Compress a Python file",
      "  python test3-claude.py decompress <file>           # Decompress a file",
      "Examples:",
      "  python test3-claude.py compress example.py         # Creates example.py.compressed",
      "  python test3-claude.py decompress example.compressed  # Creates example.compressed.decompressed.py">>

\* sys.argv[i]
sys_argv(i) == argv[i + 1]

\* sys.exit(n) after the lines were printed
Exit(lines, n) ==
    /\ stdout' = stdout \o lines
    /\ status' = <<n>>
    /\ cli_pc' = "exited"
    /\ UNCHANGED stderr

\* an exception nobody catches: the interpreter prints the traceback on
\* stderr and ends with status 1
Uncaught(lines, e) ==
    /\ stdout' = stdout \o lines
    /\ stderr' = <<"Traceback (most recent call last):", e>>
    /\ status' = <<1>>
    /\ cli_pc' = "exited"

InitCli ==
    /\ PipelineOff
    /\ llm_response = <<>>
    /\ extracted = <<>>
    /\ extracted2 = <<>>
    /\ xpc = "off"
    /\ argv \in Argvs
    /\ openai_api_key \in {None, "env:OPENAI_API_KEY"}
    /\ files \in SUBSET {"example.py"}
    /\ cli_pc = "main"
    /\ compressed = Unbound
    /\ stdout = <<>>
    /\ stderr = <<>>
    /\ status = <<>>

\* main: if len(sys.argv) == 1: print_help(); sys.exit(0)
CliHelp ==
    /\ cli_pc = "main"
    /\ Len(argv) = 1
    /\ Exit(print_help, 0)
    /\ UNCHANGED <<argv, openai_api_key, files, compressed, pvars, xvars>>

\* main: command == "test": test_compression_system() starts by building
\* PythonCompressor(), whose OpenAI client refuses a missing key
CliTest ==
    /\ cli_pc = "main"
    /\ Len(argv) > 1
    /\ sys_argv(1) = "test"
    /\ IF openai_api_key = None
       THEN Uncaught(<<>>, "OpenAIError: The api_key client option must be set")
       ELSE /\ cli_pc' = "test_compress"
            /\ UNCHANGED <<stdout, stderr, status>>
    /\ UNCHANGED <<argv, openai_api_key, files, compressed, pvars, xvars>>

\* main: command in ["compress", "decompress"] and len(sys.argv) < 3
CliNoFile ==
    /\ cli_pc = "main"
    /\ Len(argv) > 1
    /\ sys_argv(1) \in {"compress", "decompress"}
    /\ Len(argv) < 3
    /\ Exit(<<"Error: No file specified for " \o sys_argv(1)>> \o print_help, 1)
    /\ UNCHANGED <<argv, openai_api_key, files, compressed, pvars, xvars>>

\* main: process_file(sys.argv[2], command); the name process_file is bound
\* nowhere in the module, so evaluating it raises NameError
CliProcessFile ==
    /\ cli_pc = "main"
    /\ Len(argv) >= 3
    /\ sys_argv(1) \in {"compress", "decompress"}
    /\ Uncaught(<<>>, "NameError: name 'process_file' is not defined")
    /\ UNCHANGED <<argv, openai_api_key, files, compressed, pvars, xvars>>

\* main: any other command
CliUnknown ==
    /\ cli_pc = "main"
    /\ Len(argv) > 1
    /\ sys_argv(1) \notin {"test", "compress", "decompress"}
    /\ Exit(<<"Error: Unknown command '" \o sys_argv(1) \o "'">> \o print_help, 1)
    /\ UNCHANGED <<argv, openai_api_key, files, compressed, pvars, xvars>>

\* test_compression_system: print the header, compress_with_openai(sample),
\* print the result
TestCompress ==
    /\ cli_pc = "test_compress"
    /\ \/ \E c \in CompressedTexts :
            /\ compressed' = c
            /\ stdout' = stdout \o <<"=== Testing OpenAI Compression ===", c>>
            /\ cli_pc' = "test_decompress"
            /\ UNCHANGED <<stderr, status>>
       \/ /\ Uncaught(<<"=== Testing OpenAI Compression ===">>, "APIError")
          /\ UNCHANGED compressed
    /\ UNCHANGED <<argv, openai_api_key, files, pvars, xvars>>

\* test_compression_system: print the header, decompress_with_openai(
\* compressed), print the result; main then returns
TestDecompress ==
    /\ cli_pc = "test_decompress"
    /\ \/ \E d \in DecompressedTexts :
            Exit(<<"=== Testing OpenAI Decompression ===", d>>, 0)
       \/ Uncaught(<<"=== Testing OpenAI Decompression ===">>, "APIError")
    /\ UNCHANGED <<argv, openai_api_key, files, compressed, pvars, xvars>>

NextCli ==
    \/ CliHelp
    \/ CliTest
    \/ CliNoFile
    \/ CliProcessFile
    \/ CliUnknown
    \/ TestCompress
    \/ TestDecompress

SpecCli == InitCli /\ [][NextCli]_vars

--------------------------------------------------------------------------
(* What the history of a run shows *)

Range(f) == {f[i] : i \in DOMAIN f}

\* the texts substituted into a user message, in the order they stand in it
Substituted(user) ==
    LET subs == SelectSeq(user, LAMBDA piece : piece.slot # "text")
    IN  [i \in 1..Len(subs) |-> subs[i].body]

\* which stage or configuration file a posted request asks for
RequestKind(r) ==
    CASE r.user[1] = Lit(HTML_SYSTEM_PROMPT) -> "HTML"
      [] r.system = JS_SYSTEM_PROMPT -> "Script"
      [] r.system = CSS_SYSTEM_PROMPT -> "Style"
      [] r.system = TESTS_SYSTEM_PROMPT -> "Tests"
      [] \E i \in 1..Len(config_files) : r.user = <<Lit(config_files[i].prompt)>> ->
           (CHOOSE n \in Range(ConfigPaths) :
               \E i \in 1..Len(config_files) :
                   config_files[i].name = n /\ r.user = <<Lit(config_files[i].prompt)>>)
      [] OTHER -> "unknown"

RequestOrder ==
    <<"HTML", "Script", "Style", "Tests", "babel.config.js", "jest.config.js",
      "package.json">>

\* extract_code on the texts the endpoint can answer, computed once
ExtractOf == [t \in CompletionTexts |-> extract_code(t)]

\* the artifact of primary stage k, once its completion has been received
Artifact(k) == ExtractOf[responses[k].text]

\* primary stage k has succeeded: its completion arrived and its artifact
\* was saved to the stage's path
StageSucceeded(k) ==
    /\ Len(responses) >= k
    /\ responses[k].ok
    /\ Len(writes) >= k
    /\ writes[k] = [path |-> PrimaryPaths[k], content |-> Artifact(k)]

\* the completion call of the n-th caller failed (n in 1..4: a stage,
\* 5..7: a configuration file)
CompletionFailed(n) ==
    \/ Len(responses) >= n /\ ~responses[n].ok
    \/ /\ pc = <<"failed", n>>
       /\ output[Len(output)] =
              <<"Error during code generation:", "ValueError: API key not provided">>

SummaryPrinted == <<"CODE GENERATION COMPLETED SUCCESSFULLY">> \in Range(output)

--------------------------------------------------------------------------
(* Claims about the pipeline, checked under Spec *)

\* C1: completion requests are posted in the fixed order HTML, Script,
\* Style, Tests, babel.config.js, jest.config.js, package.json; a request is
\* posted only after the stage before it has succeeded (completion received
\* and artifact saved), and a configuration-file request only after all four
\* primary stages have succeeded.
C1_FixedOrder ==
    /\ Len(requests) <= Len(RequestOrder)
    /\ \A i \in 1..Len(requests) : RequestKind(requests[i]) = RequestOrder[i]
    /\ \A k \in 1..(Len(requests) - 1) :
           IF k <= 4 THEN StageSucceeded(k) ELSE responses[k].ok

\* C1 witness: a full run, all seven requests posted
C1_Witness == pc = <<"done", 0>> /\ Len(requests) = 7

\* C2: the user message of primary stage k carries exactly the artifacts of
\* stages 1..k-1, in creation order, each as extract_code returned it,
\* followed by the stage's own prompt and nothing else substituted; a
\* configuration-file request carries no substituted text at all.
C2_ContextExact ==
    \A i \in 1..Len(requests) :
        IF i <= 4
        THEN Substituted(requests[i].user) =
                 [j \in 1..(i - 1) |-> Artifact(j)]
                     \o <<read_prompt_file(PromptPaths[i])>>
        ELSE Substituted(requests[i].user) = <<>>

\* C2 witness: the Tests request and the first configuration-file request
\* have been posted after three pairwise different artifacts, one of them
\* cut out of a fenced response
C2_Witness ==
    /\ Len(requests) >= 5
    /\ Cardinality({Artifact(1), Artifact(2), Artifact(3)}) = 3
    /\ \E j \in 1..3 : Contains(responses[j].text, FENCE)

\* C3: when the completion call of primary stage k fails, no request is
\* posted for a later stage or a configuration file, and no file is written
\* for stage k or anything after it: the run has written exactly the files
\* of stages 1..k-1 and every other output path is as it was at the start.
C3_AbortOnStageFailure ==
    \A k \in 1..4 :
        CompletionFailed(k) =>
            /\ Len(requests) <= k
            /\ Len(writes) = k - 1
            /\ \A j \in 1..(k - 1) : writes[j].path = PrimaryPaths[j]
            /\ \A j \in k..Len(OutputPaths) :
                   disk[OutputPaths[j]] \in {Absent, File(Stale)}

\* C3 witness: the Style stage's completion call failed after two stages
\* had been saved
C3_Witness ==
    /\ pc = <<"failed", 3>>
    /\ Len(responses) = 3 /\ ~responses[3].ok
    /\ Len(writes) = 2

\* C4: when the request of the next step is posted, the artifact of every
\* earlier primary stage has already been written to its fixed path, and
\* the file holds the very text the new request carries as context.
C4_Written(k) ==
    /\ Len(writes) >= k
    /\ writes[k] = [path |-> PrimaryPaths[k], content |-> Artifact(k)]
    /\ disk[PrimaryPaths[k]] = File(Artifact(k))

C4_SavedBeforeNextRequest ==
    [][Len(requests') = Len(requests) + 1 =>
          \A k \in 1..Min(Len(requests), 4) :
              /\ C4_Written(k)
              /\ Len(requests) < 4 =>
                    Substituted(requests'[Len(requests')].user)[k]
                        = disk[PrimaryPaths[k]].content]_vars

\* C4 witness: the Tests request has been posted, and an earlier stage's
\* response was fenced, so the saved text differs from the raw response
C4_Witness ==
    /\ Len(requests) = 4
    /\ \E j \in 1..3 : responses[j].text # Artifact(j)
    /\ \A j \in 1..3 : disk[PrimaryPaths[j]] = File(Artifact(j))

ErrorReports == {n \in 1..Len(output) : output[n][1] = "Error during code generation:"}

Written(path) == \E j \in 1..Len(writes) : writes[j].path = path

\* C9: the seven output paths are pairwise distinct, each is written at most
\* once in a run, and once a primary artifact's file has been written no
\* later step (stage, configuration file, failure) changes or removes it.
C9_WrittenOnceAndKept ==
    /\ [](/\ Cardinality(Paths) = 7
          /\ \A i \in 1..Len(writes) : \A j \in 1..Len(writes) :
                 writes[i].path = writes[j].path => i = j)
    /\ [][\A k \in 1..4 :
             Written(PrimaryPaths[k]) =>
                 disk'[PrimaryPaths[k]] = disk[PrimaryPaths[k]]]_vars

\* C9 witness: a run that found files of an earlier run has replaced the
\* four primary files and written the first configuration file, the second
\* still holding the old text
C9_Witness ==
    /\ Len(writes) = 5
    /\ disk[ConfigPaths[2]] = File(Stale)
    /\ \A k \in 1..4 : disk[PrimaryPaths[k]] = File(Artifact(k))

\* a step of the run has failed: a completion call, a prompt read or a write
AnyFailure ==
    \/ \E n \in 1..Len(OutputPaths) : CompletionFailed(n)
    \/ ErrorReports # {}

\* C10: the process exits 0 exactly on full success (the four stages and the
\* three configuration files all requested, answered and written); after
\* any failure it exits non-zero and the success summary is never printed.
C10_ExitStatus ==
    /\ pc[1] = "done" => exit_code = <<0>>
    /\ exit_code = <<0>> =>
          /\ Len(requests) = 7 /\ Len(writes) = 7
          /\ \A i \in 1..7 : responses[i].ok
          /\ ~AnyFailure
          /\ SummaryPrinted
    /\ AnyFailure => (exit_code = <<1>> /\ ~SummaryPrinted)
    /\ exit_code # <<>> => pc[1] \in {"done", "failed"}

\* C10 witness: the JavaScript stage's completion call failed and the
\* process has exited with status 1
C10_Witness ==
    /\ pc = <<"failed", 2>>
    /\ CompletionFailed(2)
    /\ exit_code = <<1>>
    /\ Len(writes) = 1

\* the cause the failed completion call of caller n raised
CauseOf(n) ==
    IF Len(responses) >= n THEN responses[n].text[1]
    ELSE "ValueError: API key not provided"

StepHeaders == {StepHeader(k) : k \in 1..4}
HeadersPrinted == {n \in 1..Len(output) : output[n][1] \in StepHeaders}
LastHeader ==
    output[CHOOSE n \in HeadersPrinted : \A m \in HeadersPrinted : m <= n][1]

C12_OneRequestEach ==
    /\ Len(requests) <= 7
    /\ \A i \in 1..Len(requests) : \A j \in 1..Len(requests) :
           RequestKind(requests[i]) = RequestKind(requests[j]) => i = j
    /\ \A i \in 1..Len(responses) : ~responses[i].ok => i = Len(requests)
    /\ Len(responses) = Len(requests)
    /\ pc = <<"done", 0>> => Len(requests) = 7

\* C12 witness: the Tests stage's request failed and the run ended with that
\* one failed request, the fourth of the run
C12_Witness ==
    /\ pc = <<"failed", 4>>
    /\ Len(requests) = 4
    /\ ~responses[4].ok

\* C13 as claimed: a value given with --model, --api-key or --endpoint is
\* the one every completion request of the run uses.
C13_OverridesUsed ==
    \A i \in 1..Len(requests) :
        /\ args.model # None => requests[i].model = args.model
        /\ args.api_key # None => requests[i].api_key = args.api_key
        /\ args.endpoint # None => requests[i].endpoint = args.endpoint

StageSystemPrompts ==
    <<HTML_SYSTEM_PROMPT, JS_SYSTEM_PROMPT, CSS_SYSTEM_PROMPT, TESTS_SYSTEM_PROMPT>>

\* C14 as claimed: each primary stage's request has the stage's own system
\* message (produce only the artifact, no explanations or markdown), never
\* the generic default.
C14_StageSystemMessage ==
    \A i \in 1..Min(4, Len(requests)) :
        /\ requests[i].system = StageSystemPrompts[i]
        /\ requests[i].system # DEFAULT_SYSTEM_MESSAGE

\* the prompt file of stage k was not found
PromptMissing(k) ==
    <<"Error during code generation:", "FileNotFoundError: " \o PromptPaths[k]>>
        \in Range(output)

\* C15: when the prompt file of stage k is missing the run ends there with
\* a non-zero status: no request is posted and no file written for stage k
\* or anything after it, while stages 1..k-1 have run and their artifacts
\* are on disk.
C15_MissingPromptFatal ==
    \A k \in 1..4 :
        PromptMissing(k) =>
            /\ pc = <<"failed", k>>
            /\ exit_code = <<1>>
            /\ Len(requests) = k - 1
            /\ Len(writes) = k - 1
            /\ \A j \in 1..(k - 1) :
                  StageSucceeded(j) /\ disk[PrimaryPaths[j]] = File(Artifact(j))
            /\ \A j \in k..Len(OutputPaths) :
                  disk[OutputPaths[j]] \in {Absent, File(Stale)}

\* C15 witness: the styling prompt was missing after two stages had run
C15_Witness ==
    /\ PromptMissing(3)
    /\ Len(requests) = 2
    /\ \A j \in 1..2 : disk[PrimaryPaths[j]] = File(Artifact(j))

\* C18: a configuration file is written with the completion text as
\* received, fence delimiters and language tag included, while a primary
\* file holds what extract_code made of its completion text.
C18_ConfigWrittenRaw ==
    \A n \in 1..Len(writes) :
        IF n <= 4
        THEN writes[n] = [path |-> PrimaryPaths[n], content |-> Artifact(n)]
        ELSE /\ writes[n] = [path |-> OutputPaths[n], content |-> responses[n].text]
             /\ disk[OutputPaths[n]] = File(responses[n].text)

\* C18 witness: babel.config.js holds a fenced answer, fence and tag
\* included, while index.html holds the body cut out of a fenced answer
C18_Witness ==
    /\ Len(writes) >= 5
    /\ responses[5].text = Wrap(<<"j", "s">>, <<"{", "}">>)
    /\ disk[ConfigPaths[1]] = File(Wrap(<<"j", "s">>, <<"{", "}">>))
    /\ Contains(responses[1].text, FENCE)
    /\ disk[html_path] = File(<<"b", NL, "c">>)

\* the response holds the fence delimiter exactly once
OneFence(t) == Cardinality(Occurrences(t, FENCE)) = 1

OneFenceInputs == {t \in Inputs : OneFence(t)}

OneFenceCompletions == {t \in CompletionTexts : OneFence(t)}

\* extract_code on every response of the input set that holds one fence
OneFenceAllEmpty == \A t \in OneFenceInputs : extract_code(t) = <<>>

\* C17: extract_code returns the empty text for every response that holds
\* exactly one fence delimiter, wherever the fence stands and whatever
\* follows it; when such a response answers primary stage k, the stage's
\* file is written empty, the run goes on, and every later stage's request
\* carries the empty text as the context of stage k.
C17_OneFenceEmpty ==
    /\ OneFenceAllEmpty
    /\ \A k \in 1..Min(4, Len(responses)) :
           (responses[k].ok /\ responses[k].text \in OneFenceCompletions) =>
               /\ pc # <<"failed", k>> \/ Len(writes) = k - 1
               /\ Len(writes) >= k =>
                      /\ writes[k] = [path |-> PrimaryPaths[k], content |-> <<>>]
                      /\ Local(k) = <<>>
               /\ \A i \in (k + 1)..Min(4, Len(requests)) :
                      Substituted(requests[i].user)[k] = <<>>

\* C17 witness: the HTML completion held one fence, index.html was written
\* empty, and the Script and Style requests were posted with the empty text
\* as HTML context
C17_Witness ==
    /\ Len(requests) >= 3
    /\ responses[1].ok
    /\ responses[1].text \in OneFenceCompletions
    /\ OneFenceInputs # {}
    /\ disk[html_path] = File(<<>>)
    /\ Substituted(requests[2].user)[1] = <<>>
    /\ Substituted(requests[3].user)[1] = <<>>

--------------------------------------------------------------------------
(* Claims about extract_code, checked under SpecExtract *)

Blank(s) == \A i \in 1..Len(s) : IsSpace(s[i])

\* y is x without its leading and trailing blank characters, nothing else
\* changed: a stretch of x with only blanks before and after it, that does
\* not itself begin or end with a blank
IsTrimOf(y, x) ==
    /\ y = <<>> \/ (~IsSpace(y[1]) /\ ~IsSpace(y[Len(y)]))
    /\ \E a \in 0..Len(x) : \E b \in a..Len(x) :
          /\ y = SubSeq(x, a + 1, b)
          /\ Blank(SubSeq(x, 1, a))
          /\ Blank(SubSeq(x, b + 1, Len(x)))

\* C5 as claimed: extract_code(extract_code(x)) = extract_code(x) for any
\* text x, also when three or more fence delimiters leave a delimiter inside
\* the first result.
C5_Idempotent == xpc = "twice" => extracted2 = extracted

\* C5 as amended: extract_code is idempotent exactly on the texts whose first
\* result holds no fence delimiter, and every text with at most two
\* occurrences of the delimiter is such a text; when a delimiter remains in
\* the first result, the second application returns a different text.
C5_IdempotentIffUnwrapped ==
    xpc = "twice" =>
        /\ (extracted2 = extracted) <=> ~Contains(extracted, FENCE)
        /\ Cardinality(Occurrences(llm_response, FENCE)) <= 2
               => ~Contains(extracted, FENCE)

\* C5 witness: a fenced text was cut down to a non-empty body without a
\* fence, and the second application left that body alone
C5_Witness ==
    /\ xpc = "twice"
    /\ Cardinality(Occurrences(llm_response, FENCE)) = 2
    /\ extracted # <<>>
    /\ extracted2 = extracted

\* C6 as claimed: for fence + tag + newline + code + newline + fence, with
\* any tag that holds no newline and any code that holds no fence,
\* extract_code returns the code, trimmed.
C6_FencedBlock ==
    \A tag \in Tags : \A code \in Codes :
        (xpc # "in" /\ llm_response = Wrap(tag, code))
            => extracted = strip(code)

\* C7: on a text without a fence delimiter extract_code removes the leading
\* and trailing blank characters and changes nothing else.
C7_NoFenceTrim ==
    (xpc # "in" /\ ~Contains(llm_response, FENCE))
        => IsTrimOf(extracted, llm_response)

\* C7 witness: a text without a fence, with blanks at both ends and a
\* backquote inside, has been extracted
C7_Witness ==
    /\ xpc = "once"
    /\ ~Contains(llm_response, FENCE)
    /\ Len(llm_response) >= 4
    /\ IsSpace(llm_response[1]) /\ IsSpace(llm_response[Len(llm_response)])
    /\ Contains(llm_response, <<BT>>)
    /\ Len(extracted) = Len(llm_response) - 2


--------------------------------------------------------------------------
(* Claims about the compressor command line, checked under SpecCli *)

\* the output file the help text documents for a command and its file
DocumentedOutput(command, file) ==
    IF command = "compress" THEN file \o ".compressed"
    ELSE file \o ".decompressed.py"

\* C16: the command line does what its help text documents: without
\* arguments it prints the help and exits with 0; compress <file> and
\* decompress <file> end without an error and leave the documented output
\* file; compress or decompress without a file, and an unknown command,
\* print an error and exit with 1.
C16_CliDispatch ==
    cli_pc = "exited" =>
        /\ Len(argv) = 1 => status = <<0>> /\ stdout = print_help
        /\ (Len(argv) >= 3 /\ sys_argv(1) \in {"compress", "decompress"}) =>
               /\ status = <<0>>
               /\ stderr = <<>>
               /\ DocumentedOutput(sys_argv(1), sys_argv(2)) \in files
        /\ (Len(argv) = 2 /\ sys_argv(1) \in {"compress", "decompress"}) =>
               /\ status = <<1>>
               /\ stdout[1] = "Error: No file specified for " \o sys_argv(1)
        /\ (Len(argv) >= 2 /\ sys_argv(1) \notin {"test", "compress", "decompress"}) =>
               /\ status = <<1>>
               /\ stdout[1] = "Error: Unknown command '" \o sys_argv(1) \o "'"

====
